---- MODULE Spec2Model ----
(***************************************************************************)
(* Model of src/OpenSage.Game/Assets/Shaders/Common.h, the shader preamble *)
(* shared by the OpenSAGE rendering shaders: the resource-set numbers, the *)
(* GlobalConstants uniform block, the helper functions and DO_CLIPPING.    *)
(*                                                                         *)
(* Representation of GLSL floats (all 32-bit, finite; spec section 4.4     *)
(* leaves NaN to the clamp primitive and section 7 restricts the functions *)
(* to their documented input domains):                                     *)
(*   - scalars handed to FailsAlphaTest and saturate are written in units  *)
(*     of Ulp = 2^-25, the spacing of float32 in [0.25, 0.5), so 1.0 is    *)
(*     One = 2^25 and every sample used is an exact float32 value;         *)
(*   - vectors, planes and matrices handed to TransformNormal,             *)
(*     CalculateClippingPlane and DO_CLIPPING hold small integer-valued    *)
(*     floats, on which float32 multiplication and addition are exact,     *)
(*     so 1.0 is the integer 1 there.                                      *)
(***************************************************************************)
EXTENDS Integers, Sequences, FiniteSets

VARIABLES GlobalConstants, gl_ClipDistance, call, result

vars == <<GlobalConstants, gl_ClipDistance, call, result>>

(***************************************************************************)
(* Bounds of the model                                                     *)
(***************************************************************************)
\* vector components of positions and directions range over -MaxCoord..MaxCoord
MaxCoord == 1
\* alphas range over the float32 values within AlphaWindow ulps of the literal
AlphaWindow == 22
\* scalar saturate samples reach MaxStep quarters below 0.0 and above 1.0
MaxStep == 1

(***************************************************************************)
(* #define ..._RESOURCE_SET                                                *)
(***************************************************************************)
GLOBAL_CONSTANTS_RESOURCE_SET == 0
PASS_CONSTANTS_RESOURCE_SET == 1
MATERIAL_CONSTANTS_RESOURCE_SET == 2
RENDER_ITEM_CONSTANTS_RESOURCE_SET == 3
\* mutant: the water-animation set collides with the render-item set
WATER_ANIMATION_CONSTANTS_RESOURCE_SET_collides == RENDER_ITEM_CONSTANTS_RESOURCE_SET
WATER_ANIMATION_CONSTANTS_RESOURCE_SET == 4

ResourceSets ==
    << GLOBAL_CONSTANTS_RESOURCE_SET, PASS_CONSTANTS_RESOURCE_SET,
       MATERIAL_CONSTANTS_RESOURCE_SET, RENDER_ITEM_CONSTANTS_RESOURCE_SET,
       WATER_ANIMATION_CONSTANTS_RESOURCE_SET >>

(***************************************************************************)
(* Float scale of the scalar helpers                                       *)
(***************************************************************************)
One == 2^25
Half == 2^24
Quarter == 2^23

\* the literal 0.37647f: the float32 nearest to 0.37647 is 12632237 * 2^-25
AlphaTestThreshold == 12632237

(***************************************************************************)
(* GLSL built-ins used by the header                                       *)
(***************************************************************************)
max(x, y) == IF x < y THEN y ELSE x
min(x, y) == IF y < x THEN y ELSE x
clamp(x, minVal, maxVal) == min(max(x, minVal), maxVal)
clamp_vec3(v, minVal, maxVal) == [i \in 1..3 |-> clamp(v[i], minVal[i], maxVal[i])]
vec4(v, w) == Append(v, w)
xyz(v) == SubSeq(v, 1, 3)
dot(a, b) == a[1] * b[1] + a[2] * b[2] + a[3] * b[3] + a[4] * b[4]
\* mat4 * vec4; a mat4 is column-major, m[c][r] is column c, row r
MatMulVec(m, v) ==
    [r \in 1..4 |-> m[1][r] * v[1] + m[2][r] * v[2] + m[3][r] * v[3] + m[4][r] * v[4]]

(***************************************************************************)
(* Functions of the header                                                 *)
(***************************************************************************)
FailsAlphaTest(alpha) == alpha < AlphaTestThreshold

\* mutant: the direction is extended with w = 1, so the translation is added
TransformNormal_point(v, m) == xyz(MatMulVec(m, vec4(v, 1)))
TransformNormal(v, m) == xyz(MatMulVec(m, vec4(v, 0)))

\* mutant: only the lower bound is applied
saturate_lower(v) == max(v, 0)
saturate(v) == clamp(v, 0, One)

\* mutant: the upper bound of the last component is 0
saturate_vec3_z0(v) == clamp_vec3(v, <<0, 0, 0>>, <<One, One, 0>>)
saturate_vec3(v) == clamp_vec3(v, <<0, 0, 0>>, <<One, One, One>>)

\* mutant: the enable flag is not consulted
CalculateClippingPlane_always(position, hasClippingPlane, plane) ==
    dot(vec4(position, 1), plane)
\* mutant: the position is extended with w = 0, so plane.w is dropped
CalculateClippingPlane_w0(position, hasClippingPlane, plane) ==
    IF hasClippingPlane THEN dot(vec4(position, 0), plane) ELSE 1
\* mutant: the flag is read from the uniform block, not from the argument
CalculateClippingPlane_global(position, hasClippingPlane, plane) ==
    IF GlobalConstants._GlobalConstants.HasClippingPlane1
    THEN dot(vec4(position, 1), plane)
    ELSE 1
CalculateClippingPlane(position, hasClippingPlane, plane) ==
    IF hasClippingPlane THEN dot(vec4(position, 1), plane) ELSE 1

\* mutant: the macro as it was before it was disabled
DO_CLIPPING_enabled(position) ==
    << CalculateClippingPlane(position,
                              GlobalConstants._GlobalConstants.HasClippingPlane1,
                              GlobalConstants._GlobalConstants.ClippingPlane1),
       CalculateClippingPlane(position,
                              GlobalConstants._GlobalConstants.HasClippingPlane2,
                              GlobalConstants._GlobalConstants.ClippingPlane2) >>
\* the values the macro stores in gl_ClipDistance[0] and gl_ClipDistance[1]
DO_CLIPPING(position) == <<1, 1>>

(***************************************************************************)
(* Inputs                                                                  *)
(***************************************************************************)
Coords == -MaxCoord .. MaxCoord
\* positions and directions; z is taken on one side to keep the set small
Vec3s == {<<x, y, z>> : x \in Coords, y \in Coords, z \in 0 .. MaxCoord}

Planes == {<<0, 1, 0, -5>>, <<1, -1, 2, 3>>}

Identity3 == <<<<1, 0, 0>>, <<0, 1, 0>>, <<0, 0, 1>>>>
Linears == {Identity3, <<<<2, 1, 0>>, <<-1, 3, 0>>, <<4, 0, -2>>>>}
Translations == {<<0, 0, 0>>, <<5, -3, 2>>}
\* the matrix with the columns of l as its linear part and t as its translation
Mat4(l, t) == <<vec4(l[1], 0), vec4(l[2], 0), vec4(l[3], 0), vec4(t, 1)>>
Matrices == {Mat4(l, t) : l \in Linears, t \in Translations}
WithTranslation(m, t) == <<m[1], m[2], m[3], vec4(t, m[4][4])>>
LinearPart(m) == <<xyz(m[1]), xyz(m[2]), xyz(m[3])>>

Alphas ==
    ((AlphaTestThreshold - AlphaWindow) .. (AlphaTestThreshold + AlphaWindow))
        \cup {0, Quarter, Half, One}

\* the quarters around [0, 1] and the float32 neighbours of 0.0 and 1.0
Scalars ==
    {k * Quarter : k \in (-MaxStep) .. (4 + MaxStep)}
        \cup {-1, 1, One - 2, One + 4}

SatComponents == {-Half, Half, One, One + Half}
SatVec3s == {<<x, y, z>> : x \in SatComponents, y \in SatComponents, z \in SatComponents}

GlobalConstantsType ==
    [ CameraPosition : {<<0, 0, 0>>},
      TimeInSeconds : {0},
      ViewProjection : {Mat4(Identity3, <<0, 0, 0>>)},
      ClippingPlane1 : {<<0, 1, 0, -5>>},
      ClippingPlane2 : {<<1, -1, 2, 3>>},
      HasClippingPlane1 : BOOLEAN,
      HasClippingPlane2 : BOOLEAN,
      ViewportSize : {<<4, 3>>} ]

\* gl_ClipDistance is not written before DO_CLIPPING runs: any value
UndefinedClipDistances == {<<0, 0>>, <<-1, -1>>}

(***************************************************************************)
(* State machine                                                           *)
(***************************************************************************)
Init ==
    /\ GlobalConstants \in
         [ set : {GLOBAL_CONSTANTS_RESOURCE_SET},
           binding : {0},
           _GlobalConstants : GlobalConstantsType ]
    /\ gl_ClipDistance \in UndefinedClipDistances
    /\ call = [fn |-> "none", args |-> <<>>]
    /\ result = <<>>

\* the host writes new values into the uniform block between draws
UpdateGlobalConstants ==
    /\ \E g \in GlobalConstantsType :
         /\ g # GlobalConstants._GlobalConstants
         /\ GlobalConstants' = [GlobalConstants EXCEPT !._GlobalConstants = g]
    /\ UNCHANGED <<gl_ClipDistance, call, result>>

CallFailsAlphaTest ==
    /\ \E alpha \in Alphas :
         /\ call' = [fn |-> "FailsAlphaTest", args |-> <<alpha>>]
         /\ result' = FailsAlphaTest(alpha)
    /\ UNCHANGED <<GlobalConstants, gl_ClipDistance>>

CallTransformNormal ==
    /\ \E v \in Vec3s, m \in Matrices :
         /\ call' = [fn |-> "TransformNormal", args |-> <<v, m>>]
         /\ result' = TransformNormal(v, m)
    /\ UNCHANGED <<GlobalConstants, gl_ClipDistance>>

CallSaturate ==
    /\ \E v \in Scalars :
         /\ call' = [fn |-> "saturate", args |-> <<v>>]
         /\ result' = saturate(v)
    /\ UNCHANGED <<GlobalConstants, gl_ClipDistance>>

CallSaturateVec3 ==
    /\ \E v \in SatVec3s :
         /\ call' = [fn |-> "saturate_vec3", args |-> <<v>>]
         /\ result' = saturate_vec3(v)
    /\ UNCHANGED <<GlobalConstants, gl_ClipDistance>>

CallCalculateClippingPlane ==
    /\ \E position \in Vec3s, hasClippingPlane \in BOOLEAN, plane \in Planes :
         /\ call' = [fn |-> "CalculateClippingPlane",
                     args |-> <<position, hasClippingPlane, plane>>]
         /\ result' = CalculateClippingPlane(position, hasClippingPlane, plane)
    /\ UNCHANGED <<GlobalConstants, gl_ClipDistance>>

DoClipping ==
    /\ \E position \in Vec3s :
         /\ call' = [fn |-> "DO_CLIPPING", args |-> <<position>>]
         /\ gl_ClipDistance' = DO_CLIPPING(position)
    /\ result' = <<>>
    /\ UNCHANGED GlobalConstants

Next ==
    \/ UpdateGlobalConstants
    \/ CallFailsAlphaTest
    \/ CallTransformNormal
    \/ CallSaturate
    \/ CallSaturateVec3
    \/ CallCalculateClippingPlane
    \/ DoClipping

Spec == Init /\ [][Next]_vars

(***************************************************************************)
(* Properties                                                              *)
(***************************************************************************)
\* alpha < 96/255 for an alpha of n ulps: 255 * n < 96 * 2^25, that is
\* 85 * n < 2^30, that is n <= (2^30 - 1) \div 85 (kept within 32 bits)
BelowAlphaReference(n) == n <= (2^30 - 1) \div 85

\* C1: FailsAlphaTest(alpha) is true exactly for the alphas below 0x60/0xFF
\* (= 96/255), false from 96/255 up to 1: the comparison's threshold is
\* exactly 96/255, strict.
C1_ThresholdIs96Over255 ==
    call.fn = "FailsAlphaTest" =>
        (result <=> BelowAlphaReference(call.args[1]))

\* C2: with hasClippingPlane = false CalculateClippingPlane returns 1 for every
\* position and plane: the plane equation has no influence on the result.
C2_DisabledPlaneReturnsOne ==
    (call.fn = "CalculateClippingPlane" /\ ~call.args[2]) =>
        /\ result = 1
        /\ \A p \in Vec3s, plane \in Planes :
             CalculateClippingPlane(p, FALSE, plane) = result

C2_Witness ==
    /\ call.fn = "CalculateClippingPlane"
    /\ ~call.args[2]
    /\ call.args[1] = <<0, 1, 0>>
    /\ call.args[3] = <<0, 1, 0, -5>>
    /\ result = 1

\* C3: with hasClippingPlane = true CalculateClippingPlane returns
\* position.x*plane.x + position.y*plane.y + position.z*plane.z + plane.w.
C3_EnabledPlaneReturnsDistance ==
    (call.fn = "CalculateClippingPlane" /\ call.args[2]) =>
        LET p == call.args[1]
            plane == call.args[3]
        IN  result = p[1] * plane[1] + p[2] * plane[2] + p[3] * plane[3] + plane[4]

\* the example of the claim: position (0,0,0), plane (0,1,0,-5) gives -5
C3_Witness ==
    /\ call.fn = "CalculateClippingPlane"
    /\ call.args[2]
    /\ call.args[1] = <<0, 0, 0>>
    /\ call.args[3] = <<0, 1, 0, -5>>
    /\ result = -5

\* C4: TransformNormal(v, m) is the xyz of m * (v, 0); matrices that differ
\* only in their translation column give the same result, and a pure
\* translation matrix returns v itself.
C4_TransformNormalDropsTranslation ==
    call.fn = "TransformNormal" =>
        LET v == call.args[1]
            m == call.args[2]
        IN  /\ \A r \in 1..3 :
                 result[r] = m[1][r] * v[1] + m[2][r] * v[2] + m[3][r] * v[3]
            /\ \A t \in Translations :
                 TransformNormal(v, WithTranslation(m, t)) = result
            /\ LinearPart(m) = Identity3 => result = v

C4_Witness ==
    /\ call.fn = "TransformNormal"
    /\ call.args[1] = <<1, -1, 1>>
    /\ call.args[2] = Mat4(Identity3, <<5, -3, 2>>)
    /\ result = <<1, -1, 1>>

\* C5: the scalar saturate returns 0 below 0, 1 above 1, and x unchanged for
\* x in [0, 1].
C5_SaturateClamps ==
    call.fn = "saturate" =>
        LET x == call.args[1]
        IN  /\ x < 0 => result = 0
            /\ x > One => result = One
            /\ (0 <= x /\ x <= One) => result = x

C5_Witness ==
    /\ call.fn = "saturate"
    /\ call.args[1] = One + 4
    /\ result = One

\* C6: the vec3 saturate is the scalar saturate applied to each component,
\* each component independently of the other two.
C6_SaturateVec3Componentwise ==
    call.fn = "saturate_vec3" =>
        LET v == call.args[1]
        IN  /\ result = <<saturate(v[1]), saturate(v[2]), saturate(v[3])>>
            /\ \A w \in SatVec3s : \A i \in 1..3 :
                 w[i] = v[i] => saturate_vec3(w)[i] = result[i]

C6_Witness ==
    /\ call.fn = "saturate_vec3"
    /\ call.args[1] = <<-Half, Half, One + Half>>
    /\ result = <<0, Half, One>>

\* C7: the five resource-set numbers are pairwise distinct and are exactly
\* {0,1,2,3,4}; the GlobalConstants block sits at set
\* GLOBAL_CONSTANTS_RESOURCE_SET (0), binding 0.
C7_ResourceSetsDistinct ==
    /\ \A i, j \in 1..5 : i # j => ResourceSets[i] # ResourceSets[j]
    /\ {ResourceSets[i] : i \in 1..5} = 0..4
    /\ GlobalConstants.set = GLOBAL_CONSTANTS_RESOURCE_SET
    /\ GlobalConstants.set = 0
    /\ GlobalConstants.binding = 0

\* the block is bound at set 0 while a shader step has run against it
C7_Witness ==
    /\ call.fn = "DO_CLIPPING"
    /\ GlobalConstants.set = 0
    /\ GlobalConstants.binding = 0
    /\ WATER_ANIMATION_CONSTANTS_RESOURCE_SET = 4

\* C8: after DO_CLIPPING both clip distances are 1.0, whatever the position
\* and the clipping planes of the global constants.
C8_DoClippingAlwaysPasses ==
    call.fn = "DO_CLIPPING" => (gl_ClipDistance[1] = 1 /\ gl_ClipDistance[2] = 1)

\* plane 1 is enabled and the position lies on its negative side
C8_Witness ==
    /\ call.fn = "DO_CLIPPING"
    /\ GlobalConstants._GlobalConstants.HasClippingPlane1
    /\ dot(vec4(call.args[1], 1), GlobalConstants._GlobalConstants.ClippingPlane1) < 0
    /\ gl_ClipDistance = <<1, 1>>

HeaderFunctions ==
    {"FailsAlphaTest", "TransformNormal", "saturate", "saturate_vec3",
     "CalculateClippingPlane"}

SameCall == call'.fn = call.fn /\ call'.args = call.args

\* C9: a call of a function of the header leaves _GlobalConstants and the
\* clip distances unchanged, and a call with the arguments of the call before
\* it returns the same result, whatever the global constants have become and
\* whatever was called before.
C9_FunctionsPure ==
    [][ call'.fn \in HeaderFunctions =>
          IF SameCall
          THEN result' = result
          ELSE UNCHANGED <<GlobalConstants, gl_ClipDistance>>
      ]_vars

\* an enabled clipping-plane call evaluated while the uniform's flag is off
C9_Witness ==
    /\ call.fn = "CalculateClippingPlane"
    /\ call.args[2]
    /\ ~GlobalConstants._GlobalConstants.HasClippingPlane1
    /\ result = dot(vec4(call.args[1], 1), call.args[3])
    /\ result # 1

\* C10: saturate is range-bounded and idempotent: 0 <= saturate(x) <= 1 and
\* saturate(saturate(x)) = saturate(x), for the scalar and for every
\* component of the vec3 overload.
C10_SaturateIdempotent ==
    /\ call.fn = "saturate" =>
         /\ 0 <= result /\ result <= One
         /\ saturate(result) = result
    /\ call.fn = "saturate_vec3" =>
         /\ \A i \in 1..3 : 0 <= result[i] /\ result[i] <= One
         /\ saturate_vec3(result) = result

C10_Witness ==
    /\ call.fn = "saturate_vec3"
    /\ call.args[1] = <<One + Half, -Half, Half>>
    /\ result = <<One, 0, Half>>

====
